---------------------------- MODULE Spec2Model ----------------------------
(***************************************************************************)
(* Model of triton/triton_sd_adapter.py: a FastAPI application with three  *)
(* coroutine handlers (generate_images, health_check, list_models) served  *)
(* by one uvicorn event loop, and the Triton backend they call.            *)
(*                                                                         *)
(* Optional values are sequences: <<>> is Python's None, <<v>> is v.       *)
(* Arrays are records [shape, data] with data in row-major order.          *)
(* The timestamp fields (created) are not modelled.                        *)
(***************************************************************************)
EXTENDS Integers, Sequences, FiniteSets, TLC

\* ------------------------------------------------------------- bounds
\* Requests the server holds at once, waiting or being handled.
NumReqs == 2
\* Largest height and width of a backend output tensor.
MaxDim == 2

\* ------------------------------------------------------ configuration
None == <<>>
Some(v) == <<v>>

\* os.getenv("TRITON_URL", "localhost:8000")
TRITON_URL == "localhost:8000"
\* The values os.getenv("MODEL_NAME", "stable_diffusion_xl") can give.
DefaultModelName == "stable_diffusion_xl"
ModelNames == {DefaultModelName, "sdxl_turbo"}

VARIABLES
    MODEL_NAME,  \* the configured model name, read once at import
    waiting,     \* requests received that the event loop has not dispatched yet
    handler,     \* the coroutine holding the event loop, blocked in its
                 \* backend call: [pc, req, calls], or None
    last         \* the exchange completed last, as handler and client saw it

vars == <<MODEL_NAME, waiting, handler, last>>

\* ------------------------------------------------------ input domains
Prompts == {"a cat", "a dog"}
NegativePrompts == {None, Some(""), Some("blurry")}
Models == ModelNames
NValues == {-1, 0, 1, 2}
ResponseFormats == {"b64_json"}

\* class ImageGenerationRequest(BaseModel)
ImageGenerationRequest ==
    [prompt : Prompts, model : Models, n : NValues,
     response_format : ResponseFormats, negative_prompt : NegativePrompts]

\* ---------------------------------------------------------- exceptions
\* Python's class hierarchy for the exceptions the steps raise.
ExceptionSubclasses ==
    {"Exception", "InferenceServerException", "ConnectionRefusedError",
     "AttributeError", "TypeError", "ValueError", "IndexError"}

IsInstance(e, cls) ==
    CASE cls = "BaseException" -> TRUE
      [] cls = "Exception" -> e.cls \in ExceptionSubclasses
      [] OTHER -> e.cls = cls

Raise(cls, msg) == [cls |-> cls, msg |-> msg]

\* What InferenceServerClient(url=TRITON_URL) raises when it raises.
ClientErrors == {Raise("InferenceServerException", "url should not include the scheme")}
\* What triton_client.infer and triton_client.is_server_live raise.
BackendErrors ==
    {Raise("ConnectionRefusedError", "[Errno 111] Connection refused"),
     Raise("InferenceServerException", "[400] model is not ready")}

\* fastapi.HTTPException(status_code, detail) as the response it becomes.
HTTPException(status_code, detail) ==
    [status |-> status_code, detail |-> Some(detail), body |-> None]
\* An exception no handler catches: the server's own 500.
Unhandled(e) ==
    [status |-> 500, detail |-> None, body |-> Some([unhandled |-> e.cls])]
\* A handler's return value as a 200 response; None serialises to null.
Returned(value) == [status |-> 200, detail |-> None, body |-> value]

\* -------------------------------------------------------------- arrays
RECURSIVE Product(_)
Product(shape) ==
    IF shape = <<>> THEN 1 ELSE Head(shape) * Product(Tail(shape))

\* image_array.astype(np.uint8)
AsTypeUint8(a) ==
    [shape |-> a.shape, data |-> [i \in 1..Len(a.data) |-> a.data[i] % 256]]

\* np.squeeze(a): every axis of length 1 is removed.
Squeeze(a) ==
    [shape |-> SelectSeq(a.shape, LAMBDA d : d # 1), data |-> a.data]

\* PIL.Image.fromarray(a) for a uint8 array: the mode comes from shape[2:].
FromArray(a) ==
    LET ndim == Len(a.shape)
        key == IF ndim > 2 THEN SubSeq(a.shape, 3, ndim) ELSE <<>>
        mode == CASE key = <<>> -> "L"
                  [] key = <<2>> -> "LA"
                  [] key = <<3>> -> "RGB"
                  [] key = <<4>> -> "RGBA"
                  [] OTHER -> "?"
        ndmax == CASE mode = "L" -> 2 [] mode = "RGB" -> 3 [] OTHER -> 4
    IN  IF mode = "?"
        THEN [ok |-> FALSE, err |-> Raise("TypeError", "Cannot handle this data type")]
        ELSE IF ndim > ndmax
        THEN [ok |-> FALSE, err |-> Raise("ValueError", "Too many dimensions")]
        ELSE IF ndim = 0
        THEN [ok |-> FALSE, err |-> Raise("IndexError", "tuple index out of range")]
        ELSE [ok |-> TRUE,
              img |-> [mode |-> mode,
                       size |-> <<IF ndim = 1 THEN 1 ELSE a.shape[2], a.shape[1]>>,
                       data |-> a.data]]

\* Bytes per pixel of a mode.
Bands(mode) ==
    CASE mode = "L" -> 1 [] mode = "LA" -> 2 [] mode = "RGB" -> 3 [] mode = "RGBA" -> 4

\* PNG colour type of a mode.
ColorType(mode) ==
    CASE mode = "L" -> 0 [] mode = "RGB" -> 2 [] mode = "LA" -> 4 [] mode = "RGBA" -> 6

RECURSIVE Flatten(_)
Flatten(seqs) ==
    IF seqs = <<>> THEN <<>> ELSE Head(seqs) \o Flatten(Tail(seqs))

\* img.save(buffered, format="PNG"): the header (width, height, bit depth,
\* colour type) and one scanline per row, each led by its filter byte 0.
\* The signature, chunk framing, checksums and compression are left out.
SavePNG(img) ==
    LET w == img.size[1]
        h == img.size[2]
        stride == w * Bands(img.mode)
        scanline(y) == <<0>> \o SubSeq(img.data, (y - 1) * stride + 1, y * stride)
    IN  <<w, h, 8, ColorType(img.mode)>> \o Flatten([y \in 1..h |-> scanline(y)])

\* base64.b64encode(bytes).decode(): the text as alphabet indices 0..63,
\* with 64 for the padding character.
RECURSIVE B64Encode(_)
B64Encode(bytes) ==
    LET n == Len(bytes)
        b(i) == IF i <= n THEN bytes[i] ELSE 0
        bits == b(1) * 65536 + b(2) * 256 + b(3)
        c1 == bits \div 262144
        c2 == (bits \div 4096) % 64
        c3 == (bits \div 64) % 64
        c4 == bits % 64
    IN  IF n = 0 THEN <<>>
        ELSE IF n = 1 THEN <<c1, c2, 64, 64>>
        ELSE IF n = 2 THEN <<c1, c2, c3, 64>>
        ELSE <<c1, c2, c3, c4>> \o B64Encode(SubSeq(bytes, 4, n))

\* ------------------------------------------------------------- backend
\* The value at flat position i of an output tensor: past 255 from i = 32 on.
Pixel(i) == 8 * i

Tensor(shape) ==
    [shape |-> shape, data |-> [i \in 1..Product(shape) |-> Pixel(i)]]

TensorShapes ==
    {<<1, h, w, 3>> : h \in 1..MaxDim, w \in 1..MaxDim}
        \cup {<<1, MaxDim, MaxDim, 5>>}

\* query_response.as_numpy("generated_image"): an array, or None when the
\* response holds no output of that name.
BackendOutputs ==
    {None} \cup {Some(Tensor(shape)) : shape \in TensorShapes}

\* ---------------------------------------------------- generate_images
\* np.array([text], dtype="object").reshape((-1, 1)) as an InferInput.
InferInput(name, text) ==
    [name |-> name, shape |-> <<1, 1>>, datatype |-> "BYTES", data |-> <<<<text>>>>]

\* Python truthiness of an Optional[str].
Truthy(opt) == opt # None /\ opt[1] # ""

\* Variant: `is not None` in place of truthiness, so "" is attached too.
BuildInputsNotNone(request) ==
    <<InferInput("prompt", request.prompt)>>
        \o (IF request.negative_prompt # None
            THEN <<InferInput("negative_prompt", request.negative_prompt[1])>>
            ELSE <<>>)

\* lines 47-63: the inputs list.
BuildInputs(request) ==
    <<InferInput("prompt", request.prompt)>>
        \o (IF Truthy(request.negative_prompt)
            THEN <<InferInput("negative_prompt", request.negative_prompt[1])>>
            ELSE <<>>)

\* Variant: the call addressed to the request's model field.
InferCallRequestModel(request) ==
    [api |-> "infer", url |-> TRITON_URL, model_name |-> request.model,
     inputs |-> BuildInputs(request), outputs |-> <<"generated_image">>]

\* triton_client.infer(model_name=MODEL_NAME, inputs=inputs, outputs=[output_img])
InferCall(request) ==
    [api |-> "infer", url |-> TRITON_URL, model_name |-> MODEL_NAME,
     inputs |-> BuildInputs(request), outputs |-> <<"generated_image">>]

\* lines 75-84: the output tensor to base64 PNG text, or the exception raised.
EncodeImage(out) ==
    IF out = None
    THEN [ok |-> FALSE,
          err |-> Raise("AttributeError", "'NoneType' object has no attribute 'astype'")]
    ELSE LET im == FromArray(Squeeze(AsTypeUint8(out[1])))
         IN  IF im.ok
             THEN [ok |-> TRUE, b64 |-> B64Encode(SavePNG(im.img))]
             ELSE im

ImageData(b64_json) == [b64_json |-> Some(b64_json), url |-> None]

\* Variant: one entry per requested image.
GenerationResponsePerN(request, img_b64) ==
    Returned(Some([data |-> [i \in 1..request.n |-> ImageData(img_b64)]]))

\* return ImageGenerationResponse(created=..., data=[ImageData(b64_json=img_b64)])
GenerationResponse(request, img_b64) ==
    Returned(Some([data |-> <<ImageData(img_b64)>>]))

\* Variant: only the backend client's own exception class is caught.
GenExceptBackendOnly(e) ==
    IF IsInstance(e, "InferenceServerException")
    THEN HTTPException(500, "Image generation failed: " \o e.msg)
    ELSE Unhandled(e)

\* except Exception as e: raise HTTPException(status_code=500, ...)
GenExcept(e) ==
    IF IsInstance(e, "Exception")
    THEN HTTPException(500, "Image generation failed: " \o e.msg)
    ELSE Unhandled(e)

\* ------------------------------------------------------- health_check
\* Variant: not live treated as unavailable.
HealthResultStrict(live) ==
    IF live
    THEN Returned(Some([status |-> "healthy", triton |-> "connected"]))
    ELSE HTTPException(503, "Triton server unavailable")

\* if triton_client.is_server_live(): return {...}; else the function ends
\* and returns None.
HealthResult(live) ==
    IF live
    THEN Returned(Some([status |-> "healthy", triton |-> "connected"]))
    ELSE Returned(None)

LiveCall == [api |-> "is_server_live", url |-> TRITON_URL]

\* Variant: the cause appended to the detail.
HealthExceptWithCause(e) ==
    IF IsInstance(e, "BaseException")
    THEN HTTPException(503, "Triton server unavailable: " \o e.msg)
    ELSE Unhandled(e)

\* except BaseException: raise HTTPException(status_code=503, ...)
HealthExcept(e) ==
    IF IsInstance(e, "BaseException")
    THEN HTTPException(503, "Triton server unavailable")
    ELSE Unhandled(e)

\* -------------------------------------------------------- list_models
\* Variant: the default name in place of the configured one.
ListModelsDefaultName ==
    Returned(Some([object |-> "list",
                   data |-> <<[id |-> DefaultModelName, object |-> "model",
                               owned_by |-> "triton"]>>]))

\* return {"object": "list", "data": [{"id": MODEL_NAME, ...}]}
ListModelsResult ==
    Returned(Some([object |-> "list",
                   data |-> <<[id |-> MODEL_NAME, object |-> "model",
                               owned_by |-> "triton"]>>]))

\* ------------------------------------------------------- state machine
GEN == "/v1/images/generations"
HEALTH == "/health"
MODELS == "/v1/models"

\* The request as the handler receives it.
Request(route, body) == [route |-> route, body |-> body]

Init ==
    /\ MODEL_NAME \in ModelNames
    /\ waiting = 0
    /\ handler = None
    /\ last = None

Body == handler[1].req.body[1]

\* The requests being handled: one or none.
Running == IF handler = None THEN 0 ELSE 1

\* A request arrives and waits for the event loop.
Arrive ==
    /\ waiting + Running < NumReqs
    /\ waiting' = waiting + 1
    /\ UNCHANGED <<MODEL_NAME, handler, last>>

\* The event loop runs one coroutine at a time, and a handler has no await:
\* a waiting request is dispatched only when no handler holds the loop.
CanRun ==
    /\ waiting > 0
    /\ handler = None

\* The handler blocks in a backend call: it keeps the event loop.
Block(pc, q, cs) ==
    /\ handler' = Some([pc |-> pc, req |-> q, calls |-> cs])
    /\ UNCHANGED <<MODEL_NAME, last>>

\* The handler, given request q, ends with response v after the backend
\* calls cs, the backend's return value out (if it returned) and the
\* exception exc (if one was raised); the event loop is free again.
Finish(q, cs, out, exc, v) ==
    /\ last' = Some([req |-> q, calls |-> cs, output |-> out, raised |-> exc,
                     resp |-> v])
    /\ handler' = None
    /\ UNCHANGED MODEL_NAME

\* generate_images, lines 43-73: the client is built, the inputs are built
\* and the handler blocks in triton_client.infer.
GenStart ==
    /\ CanRun
    /\ waiting' = waiting - 1
    /\ \E b \in ImageGenerationRequest :
          Block("infer", Request(GEN, Some(b)), <<InferCall(b)>>)

\* generate_images: InferenceServerClient(url=TRITON_URL) raises.
GenClientRaise ==
    /\ CanRun
    /\ waiting' = waiting - 1
    /\ \E b \in ImageGenerationRequest, e \in ClientErrors :
          Finish(Request(GEN, Some(b)), <<>>, None, Some(e), GenExcept(e))

InBackendCall(pc) == handler # None /\ handler[1].pc = pc

\* Variant: a failed infer call is issued once more before giving up.
InferRaiseRetry ==
    /\ InBackendCall("infer")
    /\ UNCHANGED waiting
    /\ \E e \in BackendErrors :
          IF Len(handler[1].calls) < 2
          THEN Block("infer", handler[1].req, Append(handler[1].calls, InferCall(Body)))
          ELSE Finish(handler[1].req, handler[1].calls, None, Some(e), GenExcept(e))

\* generate_images: triton_client.infer raises.
InferRaise ==
    /\ InBackendCall("infer")
    /\ UNCHANGED waiting
    /\ \E e \in BackendErrors :
          Finish(handler[1].req, handler[1].calls, None, Some(e), GenExcept(e))

\* Lines 75-84 for each output the backend can return.
Encoded == [out \in BackendOutputs |-> EncodeImage(out)]

\* generate_images, lines 75-93: triton_client.infer returns; the output is
\* decoded and encoded, and the handler returns or raises.
InferReturn ==
    /\ InBackendCall("infer")
    /\ UNCHANGED waiting
    /\ \E out \in BackendOutputs :
          LET enc == Encoded[out]
          IN  IF enc.ok
              THEN Finish(handler[1].req, handler[1].calls, Some(out), None,
                          GenerationResponse(Body, enc.b64))
              ELSE Finish(handler[1].req, handler[1].calls, Some(out), Some(enc.err),
                          GenExcept(enc.err))

\* health_check, lines 99-101: the client is built and the handler blocks
\* in triton_client.is_server_live.
HealthStart ==
    /\ CanRun
    /\ waiting' = waiting - 1
    /\ Block("live", Request(HEALTH, None), <<LiveCall>>)

\* health_check: InferenceServerClient(url=TRITON_URL) raises.
HealthClientRaise ==
    /\ CanRun
    /\ waiting' = waiting - 1
    /\ \E e \in ClientErrors :
          Finish(Request(HEALTH, None), <<>>, None, Some(e), HealthExcept(e))

\* health_check: triton_client.is_server_live raises.
LiveRaise ==
    /\ InBackendCall("live")
    /\ UNCHANGED waiting
    /\ \E e \in BackendErrors :
          Finish(handler[1].req, handler[1].calls, None, Some(e), HealthExcept(e))

\* health_check: triton_client.is_server_live returns live or not live.
LiveReturn ==
    /\ InBackendCall("live")
    /\ UNCHANGED waiting
    /\ \E live \in BOOLEAN :
          Finish(handler[1].req, handler[1].calls, Some(live), None, HealthResult(live))

\* list_models: the whole handler.
ListModels ==
    /\ CanRun
    /\ waiting' = waiting - 1
    /\ Finish(Request(MODELS, None), <<>>, None, None, ListModelsResult)

\* The event loop dispatches a waiting request to its handler.
Begin ==
    \/ GenStart
    \/ GenClientRaise
    \/ HealthStart
    \/ HealthClientRaise
    \/ ListModels

\* The blocking backend call of the running handler ends.
BackendStep ==
    \/ InferRaise
    \/ InferReturn
    \/ LiveRaise
    \/ LiveReturn

Next ==
    \/ Arrive
    \/ Begin
    \/ BackendStep

Spec == Init /\ [][Next]_vars

\* ------------------------------------------------- what a client reads
\* The handler that is running and the one that completed last, each with
\* its request and the backend calls it has issued.
Handled ==
    (IF handler = None THEN {}
     ELSE {[req |-> handler[1].req, calls |-> handler[1].calls]})
        \cup (IF last = None THEN {}
              ELSE {[req |-> last[1].req, calls |-> last[1].calls]})

IsGen(x) == x.req.route = GEN
\* The completed exchange is of the given route.
Completed(route) == last # None /\ last[1].req.route = route

\* A 1x1 array of strings as the backend receives it.
TextTensor(name, text) ==
    [name |-> name, shape |-> <<1, 1>>, datatype |-> "BYTES", data |-> <<<<text>>>>]

\* Base64 text (alphabet indices, 64 for padding) back to bytes.
RECURSIVE B64Decode(_)
B64Decode(text) ==
    IF Len(text) < 4 THEN <<>>
    ELSE LET c1 == text[1]
             c2 == text[2]
             c3 == text[3]
             c4 == text[4]
             b1 == c1 * 4 + (c2 \div 16)
             b2 == (c2 % 16) * 16 + (IF c3 = 64 THEN 0 ELSE c3 \div 4)
             b3 == (IF c3 = 64 THEN 0 ELSE (c3 % 4) * 64) + (IF c4 = 64 THEN 0 ELSE c4)
         IN  (IF c3 = 64 THEN <<b1>> ELSE IF c4 = 64 THEN <<b1, b2>> ELSE <<b1, b2, b3>>)
                 \o B64Decode(SubSeq(text, 5, Len(text)))

\* PNG bytes back to a raster: height x width for greyscale, height x width
\* x channels otherwise.
PngDecode(bytes) ==
    LET w == bytes[1]
        h == bytes[2]
        ct == bytes[4]
        bands == CASE ct = 0 -> 1 [] ct = 2 -> 3 [] ct = 4 -> 2 [] ct = 6 -> 4
        stride == w * bands
        row(y) == SubSeq(bytes, 4 + (y - 1) * (stride + 1) + 2, 4 + y * (stride + 1))
    IN  [shape |-> IF bands = 1 THEN <<h, w>> ELSE <<h, w, bands>>,
         data |-> Flatten([y \in 1..h |-> row(y)])]

IsBytes(a) == \A i \in 1..Len(a.data) : a.data[i] \in 0..255

\* ---------------------------------------------------------------- C1
\* C1: every backend infer call of a generation request carries exactly one
\* input, prompt, when negative_prompt is absent or empty, and exactly the
\* two inputs prompt, negative_prompt when it is non-empty, each a 1x1
\* string array holding the request's text.
C1_InputsFromPrompts ==
    \A x \in Handled :
        IsGen(x) =>
            \A i \in 1..Len(x.calls) :
                LET b == x.req.body[1]
                    c == x.calls[i]
                IN  /\ c.api = "infer"
                    /\ IF b.negative_prompt \in {None, Some("")}
                       THEN c.inputs = <<TextTensor("prompt", b.prompt)>>
                       ELSE c.inputs =
                                <<TextTensor("prompt", b.prompt),
                                  TextTensor("negative_prompt", b.negative_prompt[1])>>

\* An infer call was issued for an empty negative prompt and another for a
\* non-empty one.
C1_Witness ==
    \E x1, x2 \in Handled :
        /\ IsGen(x1) /\ Len(x1.calls) = 1 /\ x1.req.body[1].negative_prompt = Some("")
        /\ IsGen(x2) /\ Len(x2.calls) = 1 /\ x2.req.body[1].negative_prompt = Some("blurry")

\* ---------------------------------------------------------------- C2
\* C2: every infer call is addressed to the configured model name, and two
\* generation requests that differ at most in model, each having reached
\* its backend call, have issued the same calls.
C2_ModelFieldIgnored ==
    /\ \A x \in Handled :
          IsGen(x) => \A i \in 1..Len(x.calls) : x.calls[i].model_name = MODEL_NAME
    /\ \A x1, x2 \in Handled :
          (/\ IsGen(x1) /\ IsGen(x2)
           /\ x1.calls # <<>> /\ x2.calls # <<>>
           /\ [x1.req.body[1] EXCEPT !.model = ""] = [x2.req.body[1] EXCEPT !.model = ""])
              => x1.calls = x2.calls

\* Two requests differing only in model, one naming a model other than the
\* configured one, have both issued their call.
C2_Witness ==
    \E x1, x2 \in Handled :
        /\ IsGen(x1) /\ IsGen(x2)
        /\ Len(x1.calls) = 1 /\ Len(x2.calls) = 1
        /\ x1.req.body[1].model # MODEL_NAME /\ x2.req.body[1].model = MODEL_NAME
        /\ [x1.req.body[1] EXCEPT !.model = ""] = [x2.req.body[1] EXCEPT !.model = ""]

\* ---------------------------------------------------------------- C3
\* C3: whatever n is, a successful generation response has data of length 1,
\* with b64_json set and url absent, and one infer call was made for it.
C3_OneImageWhateverN ==
    (Completed(GEN) /\ last[1].resp.status = 200) =>
        LET data == last[1].resp.body[1].data
        IN  /\ Len(data) = 1
            /\ data[1].b64_json # None
            /\ data[1].url = None
            /\ Len(last[1].calls) = 1

\* A successful generation that asked for n = 2.
C3_Witness ==
    /\ Completed(GEN) /\ last[1].resp.status = 200
    /\ last[1].req.body[1].n = 2

\* ---------------------------------------------------------------- C4
\* C4: a generation request ends in exactly one of two ways: nothing was
\* raised and the response is 200 with one image, or something was raised
\* and the response is 500 with detail "Image generation failed: " followed
\* by the error's description, and no image.
C4_UniformFailure ==
    Completed(GEN) =>
        LET v == last[1].resp
        IN  IF last[1].raised = None
            THEN /\ v.status = 200
                 /\ v.detail = None
                 /\ v.body # None
                 /\ Len(v.body[1].data) = 1
                 /\ v.body[1].data[1].b64_json # None
            ELSE /\ v.status = 500
                 /\ v.detail = Some("Image generation failed: " \o last[1].raised[1].msg)
                 /\ v.body = None

\* The backend call succeeded and the raster conversion raised.
C4_Witness ==
    /\ Completed(GEN)
    /\ last[1].output # None
    /\ last[1].raised # None /\ last[1].raised[1].cls = "TypeError"

\* ---------------------------------------------------------------- C5
\* C5: a health check in which anything was raised answers 503 with detail
\* exactly "Triton server unavailable"; one whose liveness query returned
\* live answers 200 with exactly the healthy body; and the healthy body is
\* returned only when the backend reported live.
C5_HealthOutcomes ==
    Completed(HEALTH) =>
        LET v == last[1].resp
            healthy == Some([status |-> "healthy", triton |-> "connected"])
            live == last[1].raised = None /\ last[1].output = Some(TRUE)
        IN  /\ last[1].raised # None =>
                  v = [status |-> 503, detail |-> Some("Triton server unavailable"),
                       body |-> None]
            /\ live => v = [status |-> 200, detail |-> None, body |-> healthy]
            /\ v.body = healthy => live

\* A health check whose liveness query raised.
C5_Witness ==
    /\ Completed(HEALTH)
    /\ last[1].raised # None /\ Len(last[1].calls) = 1

\* ---------------------------------------------------------------- C6
\* C6: a /v1/models request always ends with 200 and exactly one entry,
\* whose id is the configured model name and whose owned_by is "triton";
\* it made no backend call and nothing was raised.
C6_StaticListing ==
    Completed(MODELS) =>
        LET v == last[1].resp
        IN  /\ v.status = 200
            /\ Len(v.body[1].data) = 1
            /\ v.body[1].data[1].id = MODEL_NAME
            /\ v.body[1].data[1].owned_by = "triton"
            /\ last[1].calls = <<>>
            /\ last[1].raised = None

\* A listing was answered under a configured name other than the default,
\* and another request is now blocked in its backend call.
C6_Witness ==
    /\ Completed(MODELS)
    /\ MODEL_NAME # DefaultModelName
    /\ handler # None

\* ---------------------------------------------------------------- C7
\* C7: for a backend output of shape 1 x H x W x 3 holding bytes, the
\* generation succeeds and b64_json, base64-decoded and PNG-decoded, is the
\* H x W x 3 raster equal to the input.
C7_RoundTrip ==
    (/\ Completed(GEN)
     /\ last[1].output # None /\ last[1].output[1] # None
     /\ Len(last[1].output[1][1].shape) = 4
     /\ last[1].output[1][1].shape[1] = 1
     /\ last[1].output[1][1].shape[4] = 3
     /\ IsBytes(last[1].output[1][1]))
        => LET t == last[1].output[1][1]
               v == last[1].resp
           IN  /\ v.status = 200
               /\ PngDecode(B64Decode(v.body[1].data[1].b64_json[1]))
                      = [shape |-> Tail(t.shape), data |-> t.data]

\* ---------------------------------------------------------------- C8
\* C8: while one request is blocked in its backend call, another request
\* that has arrived can start without waiting for that call to return.
C8_NoStall ==
    (handler # None /\ waiting > 0) => ENABLED Begin

\* ---------------------------------------------------------------- C9
\* C9: a request issues at most one backend call (infer or liveness query),
\* also when the call or a later step raised; a request in which something
\* was raised has ended with its error response.
C9_NoRetry ==
    /\ \A x \in Handled : Len(x.calls) <= 1
    /\ (last # None /\ last[1].raised # None) =>
          (last[1].resp.status \in {500, 503} /\ last[1].resp.body = None)

\* A generation whose infer call raised completed with that one call.
C9_Witness ==
    /\ Completed(GEN)
    /\ last[1].raised # None /\ last[1].output = None
    /\ Len(last[1].calls) = 1

\* --------------------------------------------------------------- C10
\* C10: when the liveness query returns not live, the health check's
\* response has no body of its own (the handler returned None): it is
\* neither the healthy body nor the 503 failure.
C10_NotLiveFallsThrough ==
    (Completed(HEALTH) /\ last[1].raised = None /\ last[1].output = Some(FALSE)) =>
        LET v == last[1].resp
        IN  /\ v.body = None
            /\ v.status # 503
            /\ v.detail = None

\* A health check whose liveness query returned not live has answered.
C10_Witness ==
    Completed(HEALTH) /\ last[1].raised = None /\ last[1].output = Some(FALSE)

=============================================================================
